---- MODULE Spec2Model ----
(***************************************************************************)
(* Model of InvestmentComparator (src/investment_model.py): the            *)
(* progressive-tax calculators and the two deterministic projectors.       *)
(*                                                                         *)
(* Number representation.  Python computes in binary floating point; the   *)
(* model computes in fixed point:                                          *)
(*   - money is an integer number of dollars,                              *)
(*   - rates and ratios are integers in basis points (1/10000),            *)
(*   - bracket rates of the income-tax table are whole percents, so a tax  *)
(*     amount is an exact integer number of cents for whole-dollar incomes,*)
(*   - every product or quotient is rounded down (MulDiv),                 *)
(*   - x * (1 + r) ** n is computed by n successive roundings.             *)
(*                                                                         *)
(* Record constructors list their fields in the order in which the field   *)
(* names first occur in this module (TLC's internal field order), so that  *)
(* no worker ever reorders a record while another one reads it.            *)
(***************************************************************************)
EXTENDS Integers, Sequences, FiniteSets, TLC

VARIABLES
    current_age,          \* self.current_age
    retirement_age,       \* self.retirement_age
    initial_investment,   \* self.initial_investment (dollars)
    passive_ratio,        \* self.passive_ratio (basis points)
    active_ratio,         \* self.active_ratio (basis points)
    f_401k,               \* self.f_401k (basis points)
    employer_match,       \* self.employer_match (basis points)
    active_trading_freq,  \* self.active_trading_freq (basis points)
    passive_volatility,   \* self.passive_volatility (basis points)
    active_volatility,    \* self.active_volatility (basis points)
    self_investment_years, \* self.investment_years, assigned by __init__ only
    pc,                   \* "idle", "roth", "self", "mc", "withdrawal" (inside a loop), "done"
    frame,                \* local variables of the running projector call
    result,               \* outcome of the call that just ended, or NoResult
    prev,                 \* per projector: outcome of the latest call since the last assignment
    baseline,             \* outcome of the latest Roth call run with employer_match = 0
                          \* since the last assignment to any other field
    tax_call              \* the tax-calculator call just evaluated: function, arguments, outcome

vars == <<current_age, retirement_age, initial_investment, passive_ratio,
          active_ratio, f_401k, employer_match, active_trading_freq,
          passive_volatility, active_volatility, self_investment_years,
          pc, frame, result, prev, baseline, tax_call>>

config == <<current_age, retirement_age, initial_investment, passive_ratio,
            active_ratio, f_401k, employer_match, active_trading_freq,
            passive_volatility, active_volatility, self_investment_years>>

-----------------------------------------------------------------------------
(* Fixed-point helpers *)

BP == 100 * 100

Min(a, b) == IF a <= b THEN a ELSE b

\* floor(a * b / c) for c > 0, without forming the product a * b
MulDiv(a, b, c) == (a \div c) * b + ((a % c) * b) \div c

RECURSIVE Compound(_, _, _)
RECURSIVE Deflate(_, _, _)

\* x * (1 + rate) ** n; a negative exponent divides; 0 stays 0
Compound(x, rate, n) ==
    IF n = 0 \/ x = 0 THEN x
    ELSE IF n < 0 THEN Deflate(x, rate, 0 - n)
    ELSE Compound(MulDiv(x, BP + rate, BP), rate, n - 1)

\* x / (1 + rate) ** n; a negative exponent multiplies; 0 stays 0
Deflate(x, rate, n) ==
    IF n = 0 \/ x = 0 THEN x
    ELSE IF n < 0 THEN Compound(x, rate, 0 - n)
    ELSE Deflate(MulDiv(x, BP, BP + rate), rate, n - 1)

-----------------------------------------------------------------------------
(* Engine defaults that the modelled runs leave unchanged (__init__) *)

annual_income == 100000
salary_growth == 400
inflation == 300
r_401k == 1000
r_passive == 1000
r_active == 1200
f_passive == 10
f_active == 20
match_limit == 600
lt_capital_gains_tax == 1500
st_capital_gains_tax == 2400
dividend_tax == 1500
passive_dividend_yield == 150
active_dividend_yield == 200

Infinity == 2000000000

\* self.tax_brackets: <<lower, upper, rate in percent>>
tax_brackets ==
    << <<0, 44725, 10>>,
       <<44726, 95375, 12>>,
       <<95376, 182100, 22>>,
       <<182101, 231250, 24>>,
       <<231251, 578125, 35>>,
       <<578126, Infinity, 37>> >>

-----------------------------------------------------------------------------
(* Progressive tax calculators *)

\* variant of TotalTaxLoop: the bracket's tax overwrites the running total
RECURSIVE TotalTaxLoopOverwrite(_, _, _)
TotalTaxLoopOverwrite(i, total_tax, remaining_income) ==
    IF i > Len(tax_brackets) \/ remaining_income <= 0 THEN total_tax
    ELSE LET lower == tax_brackets[i][1]
             upper == tax_brackets[i][2]
             rate == tax_brackets[i][3]
             taxable_amount == Min(upper - lower, remaining_income)
         IN  TotalTaxLoopOverwrite(i + 1, taxable_amount * rate,
                                   remaining_income - taxable_amount)

\* loop of calculate_total_tax from bracket i on; the tax is in cents
RECURSIVE TotalTaxLoop(_, _, _)
TotalTaxLoop(i, total_tax, remaining_income) ==
    IF i > Len(tax_brackets) \/ remaining_income <= 0 THEN total_tax
    ELSE LET lower == tax_brackets[i][1]
             upper == tax_brackets[i][2]
             rate == tax_brackets[i][3]
             taxable_amount == Min(upper - lower, remaining_income)
         IN  TotalTaxLoop(i + 1, total_tax + taxable_amount * rate,
                          remaining_income - taxable_amount)

calculate_total_tax(income) == TotalTaxLoop(1, 0, income)

\* variant of MarginalTaxLoop: no break once the income is used up
RECURSIVE MarginalTaxLoopNoBreak(_, _, _)
MarginalTaxLoopNoBreak(i, total_tax, remaining_income) ==
    IF i > Len(tax_brackets) THEN total_tax
    ELSE LET lower == tax_brackets[i][1]
             upper == tax_brackets[i][2]
             rate == tax_brackets[i][3]
             taxable_amount == Min(upper - lower, remaining_income)
         IN  MarginalTaxLoopNoBreak(i + 1, total_tax + taxable_amount * rate,
                                    remaining_income - taxable_amount)

\* loop of calculate_marginal_tax (its own copy of the bracket loop)
RECURSIVE MarginalTaxLoop(_, _, _)
MarginalTaxLoop(i, total_tax, remaining_income) ==
    IF i > Len(tax_brackets) \/ remaining_income <= 0 THEN total_tax
    ELSE LET lower == tax_brackets[i][1]
             upper == tax_brackets[i][2]
             rate == tax_brackets[i][3]
             taxable_amount == Min(upper - lower, remaining_income)
         IN  MarginalTaxLoop(i + 1, total_tax + taxable_amount * rate,
                             remaining_income - taxable_amount)

\* total_tax / income: the quotient is kept as the fraction num / den
\* (num in cents, den in dollars); dividing by 0 raises
calculate_marginal_tax(income) ==
    IF income = 0 THEN [den |-> 0, exc |-> "ZeroDivisionError", num |-> 0]
    ELSE [den |-> income, exc |-> "none", num |-> MarginalTaxLoop(1, 0, income)]

\* (tax_with - tax_without) / contribution as a rate in basis points
calculate_true_marginal_tax(income, contribution, year) ==
    LET projected_income == Compound(income, salary_growth, year)
        tax_without == calculate_total_tax(projected_income)
        tax_with == calculate_total_tax(projected_income + contribution)
    IN  IF contribution = 0 THEN [rate |-> 0, exc |-> "ZeroDivisionError"]
        ELSE [rate |-> MulDiv(tax_with - tax_without, 100, contribution),
              exc |-> "none"]

\* cg_brackets of projected_capital_gains_tax: <<lower, upper, rate in basis points>>
cg_brackets ==
    << <<0, 44625, 0>>,
       <<44626, 492300, 1500>>,
       <<492301, Infinity, 2000>> >>

niit_threshold == 200000

\* the bracket search: first bracket with lower < income <= upper, else 0.0
RECURSIVE CgBaseRate(_, _)
CgBaseRate(i, retirement_income) ==
    IF i > Len(cg_brackets) THEN 0
    ELSE IF retirement_income > cg_brackets[i][1]
            /\ retirement_income <= cg_brackets[i][2]
         THEN cg_brackets[i][3]
         ELSE CgBaseRate(i + 1, retirement_income)

projected_capital_gains_tax(retirement_income) ==
    CgBaseRate(1, retirement_income)
        + (IF retirement_income > niit_threshold THEN 380 ELSE 0)

-----------------------------------------------------------------------------
(* Outcomes of projector calls *)

NoResult == [op |-> "none"]
NoPrev == [roth |-> NoResult, self |-> NoResult]
NoFrame == [year |-> 0]
NoTaxCall == [fn |-> "none"]

Returned(op, liq, final, annual, contributions) ==
    [exc |-> "none", op |-> op, annual_values |-> annual,
     final_real_value |-> final, liquidation_percent |-> liq,
     status |-> "returned", total_contributions |-> contributions]

Raised(op, liq, exc) ==
    [exc |-> exc, op |-> op, annual_values |-> <<>>,
     final_real_value |-> 0, liquidation_percent |-> liq,
     status |-> "raised", total_contributions |-> 0]

\* the outcome a caller holds when the next call starts is remembered per projector
Remember ==
    IF result.op \in {"roth", "self"} THEN [prev EXCEPT ![result.op] = result] ELSE prev

-----------------------------------------------------------------------------
(* Shared per-year derivations (both projectors compute them the same way) *)

calculate_investment_years == retirement_age - current_age

real_salary_growth == MulDiv(BP + salary_growth, BP, BP + inflation) - BP

real_contribution(year) == Compound(initial_investment, real_salary_growth, year)

pre_tax_contribution(year) == Compound(real_contribution(year), inflation, year)

projected_income(year) == Compound(annual_income, real_salary_growth, year)

total_income(year) == Compound(projected_income(year), inflation, year)

-----------------------------------------------------------------------------
(* calculate_roth_401k_returns *)

\* variant of RothFrame: total_contributions is not reset between calls
RothFrameStale ==
    [year |-> 0, annual_values |-> <<>>,
     total_contributions |->
         IF result.op = "roth" THEN result.total_contributions ELSE 0,
     investment_years |-> calculate_investment_years,
     roth_value |-> 0, total_employer_match |-> 0, trad_value |-> 0]

RothFrame ==
    [year |-> 0, annual_values |-> <<>>, total_contributions |-> 0,
     investment_years |-> calculate_investment_years,
     roth_value |-> 0, total_employer_match |-> 0, trad_value |-> 0]

\* true marginal tax on the year's contribution, at the nominal income
RothMarginalTax(year) ==
    calculate_true_marginal_tax(total_income(year), pre_tax_contribution(year), 0)

\* employer match of the year
employer_contribution(year) ==
    LET match_eligible_amount ==
            Min(pre_tax_contribution(year), MulDiv(total_income(year), match_limit, BP))
    IN  MulDiv(match_eligible_amount, employer_match, BP)

growth_rate == BP + r_401k - f_401k

\* variant of RothYearBody: the first year's value is not recorded
RothYearBodyNoFirstEntry(f) ==
    LET year == f.year
        roth_contribution == pre_tax_contribution(year)
        roth_value == MulDiv(f.roth_value + roth_contribution, growth_rate, BP)
        trad_value == MulDiv(f.trad_value + employer_contribution(year), growth_rate, BP)
        real_value == Deflate(roth_value + trad_value, inflation, year + 1)
    IN  [f EXCEPT !.year = year + 1,
                  !.roth_value = roth_value,
                  !.trad_value = trad_value,
                  !.total_contributions = @ + roth_contribution,
                  !.total_employer_match = @ + employer_contribution(year),
                  !.annual_values = IF year = 0 THEN @ ELSE Append(@, real_value)]

\* one iteration of the year loop
RothYearBody(f) ==
    LET year == f.year
        roth_contribution == pre_tax_contribution(year)
        roth_value == MulDiv(f.roth_value + roth_contribution, growth_rate, BP)
        trad_value == MulDiv(f.trad_value + employer_contribution(year), growth_rate, BP)
        real_value == Deflate(roth_value + trad_value, inflation, year + 1)
    IN  [f EXCEPT !.year = year + 1,
                  !.roth_value = roth_value,
                  !.trad_value = trad_value,
                  !.total_contributions = @ + roth_contribution,
                  !.total_employer_match = @ + employer_contribution(year),
                  !.annual_values = Append(@, real_value)]

\* variant of RothFinalValue: the retirement tax is taken from both balances
RothFinalValueTaxesAll(f) ==
    LET last_income == total_income(f.year - 1)
        retirement_tax ==
            calculate_true_marginal_tax(
                Compound(last_income, salary_growth, f.investment_years),
                f.trad_value, 0)
        nominal == IF f.trad_value > 0
                   THEN MulDiv(f.roth_value + f.trad_value, BP - retirement_tax.rate, BP)
                   ELSE f.roth_value
    IN  Deflate(nominal, inflation, f.investment_years)

\* after the loop: tax the matched balance, deflate over the horizon
RothFinalValue(f) ==
    LET last_income == total_income(f.year - 1)
        retirement_tax ==
            calculate_true_marginal_tax(
                Compound(last_income, salary_growth, f.investment_years),
                f.trad_value, 0)
        after_tax_trad == MulDiv(f.trad_value, BP - retirement_tax.rate, BP)
        nominal == IF f.trad_value > 0 THEN f.roth_value + after_tax_trad
                   ELSE f.roth_value
    IN  Deflate(nominal, inflation, f.investment_years)

RothCall ==
    /\ pc \in {"idle", "done"}
    /\ pc' = "roth"
    /\ frame' = RothFrame
    /\ prev' = Remember
    /\ result' = NoResult
    /\ UNCHANGED <<config, baseline, tax_call>>

RothYear ==
    /\ pc = "roth"
    /\ frame.year < frame.investment_years
    /\ IF RothMarginalTax(frame.year).exc # "none"
       THEN /\ pc' = "done"
            /\ result' = Raised("roth", 0, RothMarginalTax(frame.year).exc)
            /\ frame' = NoFrame
       ELSE /\ pc' = pc
            /\ result' = result
            /\ frame' = RothYearBody(frame)
    /\ UNCHANGED <<config, prev, baseline, tax_call>>

RothReturn ==
    /\ pc = "roth"
    /\ frame.year >= frame.investment_years
    /\ pc' = "done"
    /\ result' = Returned("roth", 0, RothFinalValue(frame),
                          frame.annual_values, frame.total_contributions)
    /\ baseline' = IF employer_match = 0 THEN result' ELSE baseline
    /\ frame' = NoFrame
    /\ UNCHANGED <<config, prev, tax_call>>

-----------------------------------------------------------------------------
(* calculate_self_investment_returns *)

\* locals of the call; bound holds the names of the locals that are only
\* assigned inside a branch or the loop and have been assigned so far
SelfFrame(liquidation_percent) ==
    [year |-> 0, annual_values |-> <<>>,
     liquidation_percent |-> liquidation_percent,
     total_contributions |-> 0, real_value |-> 0,
     active_cost_basis |-> 0, active_unrealized_gains |-> 0, active_value |-> 0,
     bound |-> {},
     passive_cost_basis |-> 0, passive_unrealized_gains |-> 0, passive_value |-> 0,
     total_value |-> 0]

\* true marginal tax on the year's contribution: the real income is passed
\* with the year, and grown by salary_growth inside calculate_true_marginal_tax
SelfMarginalTax(year) ==
    calculate_true_marginal_tax(projected_income(year), pre_tax_contribution(year), year)

\* after-tax amount invested in the year
contribution(year) ==
    MulDiv(pre_tax_contribution(year), BP - SelfMarginalTax(year).rate, BP)

passive_contribution(year) == MulDiv(contribution(year), passive_ratio, BP)

active_contribution(year) == MulDiv(contribution(year), BP - passive_ratio, BP)

\* passive pool: buy and hold, dividends taxed each year
PassiveStep(f) ==
    LET c == passive_contribution(f.year)
        grown == MulDiv(f.passive_value + c, BP + r_passive - f_passive, BP)
        passive_growth == grown - (f.passive_value + c)
        passive_dividend == MulDiv(grown, passive_dividend_yield, BP)
        passive_dividend_tax == MulDiv(passive_dividend, dividend_tax, BP)
    IN  IF f.passive_value > 0 \/ c > 0
        THEN [f EXCEPT !.passive_value = grown - passive_dividend_tax,
                       !.passive_unrealized_gains = @ + passive_growth,
                       !.passive_cost_basis = @ + c,
                       !.bound = @ \cup {"passive_growth"}]
        ELSE [f EXCEPT !.passive_value = c,
                       !.passive_cost_basis = @ + c]

\* active pool: trading gains and dividends taxed each year
ActiveStep(f) ==
    LET c == active_contribution(f.year)
        grown == MulDiv(f.active_value + c, BP + r_active - f_active, BP)
        active_growth == grown - (f.active_value + c)
        realized_gains == MulDiv(grown, active_trading_freq, BP)
        unrealized_gains == active_growth - realized_gains
        realized_gains_tax ==
            MulDiv(realized_gains,
                   (6 * st_capital_gains_tax + 4 * lt_capital_gains_tax) \div 10, BP)
        active_dividend == MulDiv(grown, active_dividend_yield, BP)
        active_dividend_tax == MulDiv(active_dividend, dividend_tax, BP)
    IN  IF active_ratio > 0
        THEN IF f.active_value > 0 \/ c > 0
             THEN [f EXCEPT !.active_value =
                                grown - realized_gains_tax - active_dividend_tax,
                            !.active_unrealized_gains = @ + unrealized_gains,
                            !.active_cost_basis = @ + c,
                            !.bound = @ \cup {"active_growth"}]
             ELSE [f EXCEPT !.active_value = c,
                            !.active_cost_basis = @ + c]
        ELSE [f EXCEPT !.active_cost_basis = @ + c]

\* the debug print of the first three and the last two years
SelfPrints(year) == year < 3 \/ year > calculate_investment_years - 3

\* the print reads passive_growth, active_growth and the dividend and tax
\* locals that are assigned together with them
SelfPrintRaises(f) == ~ ({"passive_growth", "active_growth"} \subseteq f.bound)

\* one iteration of the year loop up to the print
SelfPools(f) ==
    LET g == ActiveStep(PassiveStep(f))
    IN  [g EXCEPT !.total_contributions = @ + contribution(f.year),
                  !.total_value = g.passive_value + g.active_value,
                  !.bound = @ \cup {"total_value"}]

\* the rest of the iteration: deflate and record
SelfYearBody(f) ==
    LET g == SelfPools(f)
        real_value == Deflate(g.total_value, inflation, f.year + 1)
    IN  [g EXCEPT !.year = f.year + 1,
                  !.real_value = real_value,
                  !.annual_values = Append(@, real_value),
                  !.bound = @ \cup {"real_value"}]

\* variant of SelfFinalValue: without a liquidation tax the nominal total is
\* returned
SelfFinalValueUndeflated(f) ==
    LET final_income ==
            Compound(annual_income, salary_growth, calculate_investment_years)
        retirement_cg_tax == projected_capital_gains_tax(final_income)
        gains == f.passive_unrealized_gains + f.active_unrealized_gains
        taxable_gains == MulDiv(gains, f.liquidation_percent * 100, BP)
        final_tax == MulDiv(taxable_gains, retirement_cg_tax, BP)
    IN  IF gains > 0
        THEN Deflate(f.total_value - final_tax, inflation, calculate_investment_years)
        ELSE f.total_value

\* after the loop: liquidation tax on the unrealized gains
SelfFinalValue(f) ==
    LET final_income ==
            Compound(annual_income, salary_growth, calculate_investment_years)
        retirement_cg_tax == projected_capital_gains_tax(final_income)
        gains == f.passive_unrealized_gains + f.active_unrealized_gains
        taxable_gains == MulDiv(gains, f.liquidation_percent * 100, BP)
        final_tax == MulDiv(taxable_gains, retirement_cg_tax, BP)
    IN  IF gains > 0
        THEN Deflate(f.total_value - final_tax, inflation, calculate_investment_years)
        ELSE f.real_value

\* return real_value reads a local that only the loop or the liquidation assigns
SelfReturnRaises(f) ==
    /\ ~ (f.passive_unrealized_gains + f.active_unrealized_gains > 0)
    /\ "real_value" \notin f.bound

SelfCall(liquidation_percent) ==
    /\ pc \in {"idle", "done"}
    /\ pc' = "self"
    /\ frame' = SelfFrame(liquidation_percent)
    /\ prev' = Remember
    /\ result' = NoResult
    /\ UNCHANGED <<config, baseline, tax_call>>

SelfYear ==
    /\ pc = "self"
    /\ frame.year < calculate_investment_years
    /\ IF SelfMarginalTax(frame.year).exc # "none"
       THEN /\ pc' = "done"
            /\ result' = Raised("self", frame.liquidation_percent,
                                SelfMarginalTax(frame.year).exc)
            /\ frame' = NoFrame
       ELSE IF SelfPrints(frame.year) /\ SelfPrintRaises(SelfPools(frame))
       THEN /\ pc' = "done"
            /\ result' = Raised("self", frame.liquidation_percent, "UnboundLocalError")
            /\ frame' = NoFrame
       ELSE /\ pc' = pc
            /\ result' = result
            /\ frame' = SelfYearBody(frame)
    /\ UNCHANGED <<config, prev, baseline, tax_call>>

SelfReturn ==
    /\ pc = "self"
    /\ frame.year >= calculate_investment_years
    /\ pc' = "done"
    /\ result' = IF SelfReturnRaises(frame)
                 THEN Raised("self", frame.liquidation_percent, "UnboundLocalError")
                 ELSE Returned("self", frame.liquidation_percent, SelfFinalValue(frame),
                               frame.annual_values, frame.total_contributions)
    /\ frame' = NoFrame
    /\ UNCHANGED <<config, prev, baseline, tax_call>>

-----------------------------------------------------------------------------
(* Inputs *)

MaxShortYears == 2
IncomeMargin == 2

DefaultCurrentAge == 22
DefaultRetirementAge == 65
DefaultContribution == 10000
DefaultPassiveRatio == 8000
DefaultFee401k == 30
DefaultEmployerMatch == 300
DefaultTradingFreq == 3000
DefaultPassiveVolatility == 1500
DefaultActiveVolatility == 2500

\* horizons of 43 years, of 1 .. MaxShortYears years, of 0 years and of -1 year
CurrentAges ==
    {DefaultCurrentAge}
        \cup (DefaultRetirementAge - MaxShortYears .. DefaultRetirementAge + 1)
RetirementAges == {DefaultRetirementAge}
Contributions == {0, DefaultContribution}
PassiveRatios == {0, DefaultPassiveRatio, BP}
Fees401k == {DefaultFee401k, 2 * BP}
EmployerMatches == {0, DefaultEmployerMatch}
TradingFreqs == {0, DefaultTradingFreq, BP}
LiquidationPercents == {0, 100}

\* whole-dollar incomes around every bound of the two bracket tables
Thresholds ==
    {tax_brackets[i][1] : i \in 1..Len(tax_brackets)}
        \cup {tax_brackets[i][2] : i \in 1..(Len(tax_brackets) - 1)}
        \cup {cg_brackets[i][1] : i \in 1..Len(cg_brackets)}
        \cup {cg_brackets[i][2] : i \in 1..(Len(cg_brackets) - 1)}
        \cup {niit_threshold, annual_income}
Incomes ==
    {x \in UNION {(t - IncomeMargin)..(t + IncomeMargin) : t \in Thresholds} : x >= 0}
SignedIncomes == Incomes \cup ((0 - IncomeMargin)..0)
ContributionBlocks == {0, 1, DefaultContribution}

-----------------------------------------------------------------------------
(* Assignments to the engine's fields between calls (src/401k_web.py) *)

Assign(field) ==
    /\ pc \in {"idle", "done"}
    /\ pc' = "idle"
    /\ frame' = NoFrame
    /\ result' = NoResult
    /\ prev' = NoPrev
    /\ baseline' = IF field = "employer_match" THEN baseline ELSE NoResult
    /\ UNCHANGED tax_call

SetCurrentAge(v) ==
    /\ Assign("current_age")
    /\ current_age' = v
    /\ UNCHANGED <<retirement_age, initial_investment, passive_ratio, active_ratio,
                   f_401k, employer_match, active_trading_freq,
                   passive_volatility, active_volatility,
                   self_investment_years>>

SetRetirementAge(v) ==
    /\ Assign("retirement_age")
    /\ retirement_age' = v
    /\ UNCHANGED <<current_age, initial_investment, passive_ratio, active_ratio,
                   f_401k, employer_match, active_trading_freq,
                   passive_volatility, active_volatility,
                   self_investment_years>>

SetInitialInvestment(v) ==
    /\ Assign("initial_investment")
    /\ initial_investment' = v
    /\ UNCHANGED <<current_age, retirement_age, passive_ratio, active_ratio,
                   f_401k, employer_match, active_trading_freq,
                   passive_volatility, active_volatility,
                   self_investment_years>>

\* passive_ratio and active_ratio are assigned together
SetPassiveRatio(v) ==
    /\ Assign("passive_ratio")
    /\ passive_ratio' = v
    /\ active_ratio' = BP - v
    /\ UNCHANGED <<current_age, retirement_age, initial_investment,
                   f_401k, employer_match, active_trading_freq,
                   passive_volatility, active_volatility,
                   self_investment_years>>

SetFee401k(v) ==
    /\ Assign("f_401k")
    /\ f_401k' = v
    /\ UNCHANGED <<current_age, retirement_age, initial_investment, passive_ratio,
                   active_ratio, employer_match, active_trading_freq,
                   passive_volatility, active_volatility,
                   self_investment_years>>

SetEmployerMatch(v) ==
    /\ Assign("employer_match")
    /\ employer_match' = v
    /\ UNCHANGED <<current_age, retirement_age, initial_investment, passive_ratio,
                   active_ratio, f_401k, active_trading_freq,
                   passive_volatility, active_volatility,
                   self_investment_years>>

SetTradingFreq(v) ==
    /\ Assign("active_trading_freq")
    /\ active_trading_freq' = v
    /\ UNCHANGED <<current_age, retirement_age, initial_investment, passive_ratio,
                   active_ratio, f_401k, employer_match,
                   passive_volatility, active_volatility,
                   self_investment_years>>

-----------------------------------------------------------------------------
(* Calls of the tax calculators *)

TaxCall(call) ==
    /\ tax_call' = call
    /\ UNCHANGED <<config, pc, frame, result, prev, baseline>>

TotalTaxCall(income) ==
    TaxCall([income |-> income, fn |-> "calculate_total_tax", block |-> 0,
             out |-> calculate_total_tax(income)])

TrueMarginalTaxCall(income, block) ==
    TaxCall([income |-> income, fn |-> "calculate_true_marginal_tax",
             block |-> block,
             out |-> calculate_true_marginal_tax(income, block, 0)])

MarginalTaxCall(income) ==
    TaxCall([income |-> income, fn |-> "calculate_marginal_tax", block |-> 0,
             out |-> calculate_marginal_tax(income)])

CapitalGainsTaxCall(income) ==
    TaxCall([income |-> income, fn |-> "projected_capital_gains_tax", block |-> 0,
             out |-> projected_capital_gains_tax(income)])

-----------------------------------------------------------------------------
(* calculate_rebalancing_costs *)

Abs(x) == IF x < 0 THEN 0 - x ELSE x

drift_threshold == 500

MaxRebalanceUnits == 8

\* pool balances a caller may pass: multiples of 50 dollars
RebalanceValues == {k * 50 : k \in 0..MaxRebalanceUnits}

RebalanceOutcome(exc, rebalancing_tax) ==
    [exc |-> exc, rebalancing_tax |-> rebalancing_tax]

\* variant of RebalancingDrift: the drift is measured against active_ratio
RebalancingDriftActiveTarget(passive_value, total_value) ==
    Abs(passive_value * BP - active_ratio * total_value)

\* abs(current_passive_ratio - target_passive_ratio) * total_value, where
\* current_passive_ratio = passive_value / total_value: basis points of a dollar
RebalancingDrift(passive_value, total_value) ==
    Abs(passive_value * BP - passive_ratio * total_value)

\* variant of calculate_rebalancing_costs: the tax is charged on any drift
calculate_rebalancing_costsNoThreshold(passive_value, active_value) ==
    LET total_value == passive_value + active_value
        drift == RebalancingDrift(passive_value, total_value)
        rebalancing_amount == drift \div BP
        rebalancing_tax == MulDiv(rebalancing_amount, lt_capital_gains_tax, BP)
    IN  IF total_value = 0 THEN {RebalanceOutcome("ZeroDivisionError", 0)}
        ELSE {RebalanceOutcome("none", rebalancing_tax)}

\* the set of outcomes of a call: the division raises on an empty portfolio;
\* a drift of exactly the threshold is above or below it as the two roundings
\* of passive_value / total_value and of the difference fall
calculate_rebalancing_costs(passive_value, active_value) ==
    LET total_value == passive_value + active_value
        drift == RebalancingDrift(passive_value, total_value)
        rebalancing_amount == drift \div BP
        rebalancing_tax == MulDiv(rebalancing_amount, lt_capital_gains_tax, BP)
    IN  IF total_value = 0 THEN {RebalanceOutcome("ZeroDivisionError", 0)}
        ELSE IF drift > drift_threshold * total_value
        THEN {RebalanceOutcome("none", rebalancing_tax)}
        ELSE IF drift = drift_threshold * total_value
        THEN {RebalanceOutcome("none", rebalancing_tax), RebalanceOutcome("none", 0)}
        ELSE {RebalanceOutcome("none", 0)}

RebalancingCostsCall(passive_value, active_value) ==
    \E out \in calculate_rebalancing_costs(passive_value, active_value) :
        TaxCall([passive_ratio |-> passive_ratio,
                 fn |-> "calculate_rebalancing_costs",
                 active_value |-> active_value,
                 passive_value |-> passive_value,
                 out |-> out])

-----------------------------------------------------------------------------
(* calculate_returns_with_volatility *)

MaxSimulations == 2

\* 1000 paths in the source; the modelled runs draw MaxSimulations of them
num_simulations == MaxSimulations

\* values of a standard_t draw: one deviation either way, and a draw of the
\* heavy tail
Shocks == {0 - 8, 0 - 1, 1}

\* the two vectors of draws of one path, one pair of draws per year
Draws(investment_years) == [1..investment_years -> Shocks \X Shocks]

McOutcome(is_roth, status, exc, mean_final_value, annual_values_all, simulation_results) ==
    [exc |-> exc, op |-> "mc", status |-> status, is_roth |-> is_roth,
     mean_final_value |-> mean_final_value,
     annual_values_all |-> annual_values_all,
     simulation_results |-> simulation_results]

McFrame(is_roth) ==
    [year |-> 0, investment_years |-> calculate_investment_years,
     is_roth |-> is_roth, annual_values_all |-> <<>>, simulation_results |-> <<>>]

McPathEnd(annual_values, total_value) ==
    [annual_values |-> annual_values, total_value |-> total_value]

\* one iteration of the year loop of a self-managed path
McYear(total_value, year, passive_return, active_return) ==
    LET mc_contribution == Compound(initial_investment, salary_growth, year)
        passive_growth ==
            MulDiv(MulDiv(total_value, passive_ratio, BP), passive_return, BP)
        active_growth ==
            MulDiv(MulDiv(total_value, active_ratio, BP), active_return, BP)
        total_growth == passive_growth + active_growth
        fees == MulDiv(f_passive, passive_ratio, BP) + MulDiv(f_active, active_ratio, BP)
    IN  IF total_value > 0
        THEN MulDiv(total_value + total_growth, BP - fees, BP) + mc_contribution
        ELSE total_value + mc_contribution

\* the year loop of a self-managed path from year on
RECURSIVE McLoop(_, _, _, _, _)
McLoop(total_value, annual_values, year, investment_years, draws) ==
    IF year >= investment_years THEN McPathEnd(annual_values, total_value)
    ELSE LET passive_return == draws[year + 1][1] * passive_volatility + r_passive
             active_return == draws[year + 1][2] * active_volatility + r_active
             grown == McYear(total_value, year, passive_return, active_return)
         IN  McLoop(grown, Append(annual_values, grown), year + 1,
                    investment_years, draws)

\* one path: for is_roth the returns are drawn and the year loop, which is
\* nested in the other branch, is not run
McPathBody(f, draws) ==
    LET path == IF f.is_roth THEN McPathEnd(<<>>, 0)
                ELSE McLoop(0, <<>>, 0, f.investment_years, draws)
        real_final_value == Deflate(path.total_value, inflation, f.investment_years)
    IN  [f EXCEPT !.simulation_results = Append(@, real_final_value),
                  !.annual_values_all = Append(@, path.annual_values)]

RECURSIVE Sum(_)
Sum(seq) == IF seq = <<>> THEN 0 ELSE Head(seq) + Sum(Tail(seq))

\* np.mean
Mean(seq) == Sum(seq) \div Len(seq)

McCall(is_roth) ==
    /\ pc \in {"idle", "done"}
    /\ pc' = "mc"
    /\ frame' = McFrame(is_roth)
    /\ prev' = Remember
    /\ result' = NoResult
    /\ UNCHANGED <<config, baseline, tax_call>>

\* one iteration of the loop over the paths; standard_t refuses a negative size
McPath ==
    /\ pc = "mc"
    /\ Len(frame.simulation_results) < num_simulations
    /\ IF frame.investment_years < 0
       THEN /\ pc' = "done"
            /\ result' = McOutcome(frame.is_roth, "raised", "ValueError", 0, <<>>, <<>>)
            /\ frame' = NoFrame
       ELSE /\ pc' = pc
            /\ result' = result
            /\ \E draws \in Draws(frame.investment_years) :
                   frame' = McPathBody(frame, draws)
    /\ UNCHANGED <<config, prev, baseline, tax_call>>

McReturn ==
    /\ pc = "mc"
    /\ Len(frame.simulation_results) >= num_simulations
    /\ pc' = "done"
    /\ result' = McOutcome(frame.is_roth, "returned", "none",
                           Mean(frame.simulation_results),
                           frame.annual_values_all, frame.simulation_results)
    /\ frame' = NoFrame
    /\ UNCHANGED <<config, prev, baseline, tax_call>>

-----------------------------------------------------------------------------
(* calculate_risk_metrics *)

risk_free_rate == 300

\* x * (1 + rate) ** n; a growing value is not followed beyond cap
RECURSIVE CompoundCapped(_, _, _, _)
CompoundCapped(x, rate, n, cap) ==
    IF n = 0 \/ (x > cap /\ rate >= 0) THEN x
    ELSE CompoundCapped(MulDiv(x, BP + rate, BP), rate, n - 1, cap)

\* the largest rate in lo..hi at which initial_investment grows to at most r
\* in the given number of years
RECURSIVE RootSearch(_, _, _, _)
RootSearch(lo, hi, r, years) ==
    IF lo >= hi THEN lo
    ELSE LET mid == (lo + hi + 1) \div 2
         IN  IF CompoundCapped(initial_investment, mid, years, r) <= r
             THEN RootSearch(mid, hi, r, years)
             ELSE RootSearch(lo, mid - 1, r, years)

\* (r / self.initial_investment) ** (1 / years) - 1 for r >= 0 and years > 0
AnnualizedReturn(r, years) ==
    IF r >= initial_investment
    THEN RootSearch(0, MulDiv(r, BP, initial_investment) - BP, r, years)
    ELSE IF r = 0 THEN 0 - BP
    ELSE RootSearch(0 - BP, 0 - 1, r, years)

\* floor of the square root
RECURSIVE SqrtSearch(_, _, _)
SqrtSearch(lo, hi, n) ==
    IF lo >= hi THEN lo
    ELSE LET mid == (lo + hi + 1) \div 2
         IN  IF mid * mid <= n THEN SqrtSearch(mid, hi, n)
             ELSE SqrtSearch(lo, mid - 1, n)

\* np.std of a non-empty array
StdDev(seq) ==
    LET mean == Mean(seq)
        squares == [i \in 1..Len(seq) |-> (seq[i] - mean) * (seq[i] - mean)]
    IN  SqrtSearch(0, 2 * BP, Mean(squares))

\* returns_array[returns_array < 0]
RECURSIVE NegativeReturns(_)
NegativeReturns(seq) ==
    IF seq = <<>> THEN <<>>
    ELSE IF Head(seq) < 0 THEN <<Head(seq)>> \o NegativeReturns(Tail(seq))
    ELSE NegativeReturns(Tail(seq))

RECURSIVE MinOf(_)
MinOf(seq) ==
    IF Len(seq) = 1 THEN seq[1] ELSE Min(Head(seq), MinOf(Tail(seq)))

Ratio(kind, value) == [kind |-> kind, value |-> value]

\* a / b on numpy floats: a zero divisor gives an infinity or nan, not an
\* exception
NumpyDivide(a, b) ==
    IF b # 0 THEN Ratio("finite", MulDiv(a, BP, b))
    ELSE IF a > 0 THEN Ratio("inf", 0)
    ELSE IF a < 0 THEN Ratio("-inf", 0)
    ELSE Ratio("nan", 0)

RiskOutcome(status, exc, annual_returns, mean_return, volatility, sharpe_ratio, sortino_ratio, max_drawdown) ==
    [exc |-> exc, op |-> "risk", status |-> status,
     annual_returns |-> annual_returns, mean_return |-> mean_return,
     volatility |-> volatility, sharpe_ratio |-> sharpe_ratio,
     sortino_ratio |-> sortino_ratio, max_drawdown |-> max_drawdown]

RiskRaised(exc) ==
    RiskOutcome("raised", exc, <<>>, 0, 0, Ratio("finite", 0), Ratio("finite", 0), 0)

\* the metrics of the samples returned by the simulator; var_95 is left out
RiskMetrics(returns) ==
    LET years == self_investment_years
        annual_returns ==
            [i \in 1..Len(returns) |-> AnnualizedReturn(returns[i], years)]
        mean_return == Mean(annual_returns)
        std_dev == StdDev(annual_returns)
        negative_returns == NegativeReturns(annual_returns)
    IN  RiskOutcome("returned", "none", annual_returns, mean_return, std_dev,
            IF std_dev # 0
            THEN Ratio("finite", MulDiv(mean_return - risk_free_rate, BP, std_dev))
            ELSE Ratio("finite", 0),
            IF Len(negative_returns) > 0
            THEN NumpyDivide(mean_return - risk_free_rate, StdDev(negative_returns))
            ELSE Ratio("finite", 0),
            Abs(MinOf(annual_returns)))

\* the call starts the simulator with is_roth = False
RiskCall ==
    /\ pc \in {"idle", "done"}
    /\ pc' = "risk"
    /\ frame' = McFrame(FALSE)
    /\ prev' = Remember
    /\ result' = NoResult
    /\ UNCHANGED <<config, baseline, tax_call>>

\* one path of the nested simulator call
RiskPath ==
    /\ pc = "risk"
    /\ Len(frame.simulation_results) < num_simulations
    /\ IF frame.investment_years < 0
       THEN /\ pc' = "done"
            /\ result' = RiskRaised("ValueError")
            /\ frame' = NoFrame
       ELSE /\ pc' = pc
            /\ result' = result
            /\ \E draws \in Draws(frame.investment_years) :
                   frame' = McPathBody(frame, draws)
    /\ UNCHANGED <<config, prev, baseline, tax_call>>

\* the simulator returns; the samples are annualized over self.investment_years
RiskReturn ==
    /\ pc = "risk"
    /\ Len(frame.simulation_results) >= num_simulations
    /\ pc' = "done"
    /\ result' = IF self_investment_years = 0 \/ initial_investment = 0
                 THEN RiskRaised("ZeroDivisionError")
                 ELSE RiskMetrics(frame.simulation_results)
    /\ frame' = NoFrame
    /\ UNCHANGED <<config, prev, baseline, tax_call>>

-----------------------------------------------------------------------------
(* simulate_withdrawal_phase *)

calculate_portfolio_return ==
    MulDiv(passive_ratio, r_passive - f_passive, BP)
        + MulDiv(active_ratio, r_active - f_active, BP)

withdrawal_rates == <<300, 400, 500>>

withdrawal_years == 30

withdrawal_volatility == 1200

\* 1000 paths per rate in the source; the modelled runs draw MaxSimulations
withdrawal_paths == MaxSimulations

\* values of the normal draw of a year, in standard deviations: the mean
\* return until the market turns, one standard deviation below it from then on
WithdrawalShocks(turned) == IF turned THEN {0 - 1} ELSE {0 - 1, 0}

WithdrawalOutcome(status, exc, success_rates) ==
    [exc |-> exc, op |-> "withdrawal", status |-> status,
     success_rates |-> success_rates]

\* locals of the call; stage is "for" between two paths, "call" inside the
\* nested projector call (projector holds its locals) and "while" inside the
\* yearly loop of a path; path counts the paths of the current rate
WithdrawalFrame ==
    [year |-> 0, path |-> 0, turned |-> FALSE, success_rates |-> <<>>,
     stage |-> "for", projector |-> NoFrame, rate_index |-> 1, successes |-> 0,
     portfolio |-> 0, years_sustained |-> 0, withdrawal |-> 0]

\* one iteration of the while loop with the drawn return
WithdrawalYearBody(f, shock) ==
    LET random_return == calculate_portfolio_return + shock * withdrawal_volatility
    IN  [f EXCEPT !.portfolio = MulDiv(@ - f.withdrawal, BP + random_return, BP),
                  !.withdrawal = MulDiv(@, BP + inflation, BP),
                  !.years_sustained = @ + 1,
                  !.turned = shock < 0]

WithdrawalCall ==
    /\ pc \in {"idle", "done"}
    /\ pc' = "withdrawal"
    /\ frame' = WithdrawalFrame
    /\ prev' = Remember
    /\ result' = NoResult
    /\ UNCHANGED <<config, baseline, tax_call>>

\* start of a path: calculate_self_investment_returns() is called
WithdrawalPathStart ==
    /\ pc = "withdrawal"
    /\ frame.stage = "for"
    /\ frame.rate_index <= Len(withdrawal_rates)
    /\ frame.path < withdrawal_paths
    /\ frame' = [frame EXCEPT !.stage = "call", !.projector = SelfFrame(100)]
    /\ UNCHANGED <<config, pc, result, prev, baseline, tax_call>>

\* one year of the nested projector call; its exceptions end the whole call
WithdrawalProjectorYear ==
    /\ pc = "withdrawal"
    /\ frame.stage = "call"
    /\ frame.projector.year < calculate_investment_years
    /\ IF SelfMarginalTax(frame.projector.year).exc # "none"
       THEN /\ pc' = "done"
            /\ result' = WithdrawalOutcome(
                   "raised", SelfMarginalTax(frame.projector.year).exc, <<>>)
            /\ frame' = NoFrame
       ELSE IF SelfPrints(frame.projector.year)
                   /\ SelfPrintRaises(SelfPools(frame.projector))
       THEN /\ pc' = "done"
            /\ result' = WithdrawalOutcome("raised", "UnboundLocalError", <<>>)
            /\ frame' = NoFrame
       ELSE /\ pc' = pc
            /\ result' = result
            /\ frame' = [frame EXCEPT !.projector = SelfYearBody(frame.projector)]
    /\ UNCHANGED <<config, prev, baseline, tax_call>>

\* the nested call returns: the portfolio is its final real value
WithdrawalProjectorReturn ==
    /\ pc = "withdrawal"
    /\ frame.stage = "call"
    /\ frame.projector.year >= calculate_investment_years
    /\ IF SelfReturnRaises(frame.projector)
       THEN /\ pc' = "done"
            /\ result' = WithdrawalOutcome("raised", "UnboundLocalError", <<>>)
            /\ frame' = NoFrame
       ELSE /\ pc' = pc
            /\ result' = result
            /\ frame' = [frame EXCEPT
                   !.stage = "while",
                   !.projector = NoFrame,
                   !.portfolio = SelfFinalValue(frame.projector),
                   !.years_sustained = 0,
                   !.withdrawal =
                       MulDiv(SelfFinalValue(frame.projector),
                              withdrawal_rates[frame.rate_index], BP),
                   !.turned = FALSE]
    /\ UNCHANGED <<config, prev, baseline, tax_call>>

WithdrawalYear ==
    /\ pc = "withdrawal"
    /\ frame.stage = "while"
    /\ frame.portfolio > 0 /\ frame.years_sustained < withdrawal_years
    /\ \E shock \in WithdrawalShocks(frame.turned) :
           frame' = WithdrawalYearBody(frame, shock)
    /\ UNCHANGED <<config, pc, result, prev, baseline, tax_call>>

\* after the while loop: the path is counted by the years it ran
WithdrawalPathEnd(f) ==
    [f EXCEPT !.stage = "for",
              !.path = @ + 1,
              !.successes = IF f.years_sustained >= withdrawal_years
                            THEN @ + 1 ELSE @]

WithdrawalPathDone ==
    /\ pc = "withdrawal"
    /\ frame.stage = "while"
    /\ ~ (frame.portfolio > 0 /\ frame.years_sustained < withdrawal_years)
    /\ frame' = WithdrawalPathEnd(frame)
    /\ UNCHANGED <<config, pc, result, prev, baseline, tax_call>>

\* success_rates[rate] = successes / 1000: the count of the rate is recorded
WithdrawalRateDone ==
    /\ pc = "withdrawal"
    /\ frame.stage = "for"
    /\ frame.rate_index <= Len(withdrawal_rates)
    /\ frame.path >= withdrawal_paths
    /\ frame' = [frame EXCEPT !.success_rates = Append(@, frame.successes),
                              !.rate_index = @ + 1,
                              !.successes = 0,
                              !.path = 0]
    /\ UNCHANGED <<config, pc, result, prev, baseline, tax_call>>

WithdrawalReturn ==
    /\ pc = "withdrawal"
    /\ frame.stage = "for"
    /\ frame.rate_index > Len(withdrawal_rates)
    /\ pc' = "done"
    /\ result' = WithdrawalOutcome("returned", "none", frame.success_rates)
    /\ frame' = NoFrame
    /\ UNCHANGED <<config, prev, baseline, tax_call>>

-----------------------------------------------------------------------------
(* Statutory contribution limit of the input layer (src/401k_web.py) *)

get_roth_limit(age) ==
    LET base_limit == 23500
        catch_up == IF age >= 60 /\ age <= 63 THEN 11250
                    ELSE IF age >= 50 THEN 7500
                    ELSE 0
    IN  base_limit + catch_up

-----------------------------------------------------------------------------
(* Specifications *)

Init ==
    /\ current_age = DefaultCurrentAge
    /\ retirement_age = DefaultRetirementAge
    /\ initial_investment = DefaultContribution
    /\ passive_ratio = DefaultPassiveRatio
    /\ active_ratio = BP - DefaultPassiveRatio
    /\ f_401k = DefaultFee401k
    /\ employer_match = DefaultEmployerMatch
    /\ active_trading_freq = DefaultTradingFreq
    /\ passive_volatility = DefaultPassiveVolatility
    /\ active_volatility = DefaultActiveVolatility
    /\ self_investment_years = DefaultRetirementAge - DefaultCurrentAge
    /\ pc = "idle"
    /\ frame = NoFrame
    /\ result = NoResult
    /\ prev = NoPrev
    /\ baseline = NoResult
    /\ tax_call = NoTaxCall

Next ==
    \/ \E v \in CurrentAges : SetCurrentAge(v)
    \/ \E v \in RetirementAges : SetRetirementAge(v)
    \/ \E v \in Contributions : SetInitialInvestment(v)
    \/ \E v \in PassiveRatios : SetPassiveRatio(v)
    \/ \E v \in Fees401k : SetFee401k(v)
    \/ \E v \in EmployerMatches : SetEmployerMatch(v)
    \/ \E v \in TradingFreqs : SetTradingFreq(v)
    \/ RothCall
    \/ RothYear
    \/ RothReturn
    \/ \E p \in LiquidationPercents : SelfCall(p)
    \/ SelfYear
    \/ SelfReturn

\* the projectors on an engine whose fields are assigned between calls
Spec == Init /\ [][Next]_vars

NextTax ==
    \/ \E income \in Incomes : TotalTaxCall(income)
    \/ \E income \in Incomes, block \in ContributionBlocks :
           TrueMarginalTaxCall(income, block)
    \/ \E income \in SignedIncomes : MarginalTaxCall(income)
    \/ \E income \in Incomes : CapitalGainsTaxCall(income)

\* the tax calculators on the default engine
SpecTax == Init /\ [][NextTax]_vars

NextRebalance ==
    \/ \E v \in PassiveRatios : SetPassiveRatio(v)
    \/ \E p \in RebalanceValues, a \in RebalanceValues : RebalancingCostsCall(p, a)

\* the rebalancing-cost calculator on an engine whose allocation is assigned
SpecRebalance == Init /\ [][NextRebalance]_vars

Volatilities == {<<0, 0>>, <<DefaultPassiveVolatility, DefaultActiveVolatility>>}

\* an engine whose horizon, match rate and volatilities have been assigned
InitMC ==
    /\ current_age \in CurrentAges \ {DefaultCurrentAge}
    /\ retirement_age = DefaultRetirementAge
    /\ initial_investment = DefaultContribution
    /\ passive_ratio = DefaultPassiveRatio
    /\ active_ratio = BP - DefaultPassiveRatio
    /\ f_401k = DefaultFee401k
    /\ employer_match \in EmployerMatches
    /\ active_trading_freq = DefaultTradingFreq
    /\ \E v \in Volatilities : passive_volatility = v[1] /\ active_volatility = v[2]
    /\ self_investment_years = DefaultRetirementAge - DefaultCurrentAge
    /\ pc = "idle"
    /\ frame = NoFrame
    /\ result = NoResult
    /\ prev = NoPrev
    /\ baseline = NoResult
    /\ tax_call = NoTaxCall

NextMC ==
    \/ \E is_roth \in BOOLEAN : McCall(is_roth)
    \/ McPath
    \/ McReturn
    \/ RothCall
    \/ RothYear
    \/ RothReturn
    \/ \E p \in LiquidationPercents : SelfCall(p)
    \/ SelfYear
    \/ SelfReturn

\* the Monte Carlo simulator next to the deterministic projectors
SpecMC == InitMC /\ [][NextMC]_vars

NextRisk ==
    \/ RiskCall
    \/ RiskPath
    \/ RiskReturn

\* the risk metrics on an engine with a short accumulation horizon
SpecRisk == InitMC /\ [][NextRisk]_vars

NextWithdrawal ==
    \/ WithdrawalCall
    \/ WithdrawalPathStart
    \/ WithdrawalProjectorYear
    \/ WithdrawalProjectorReturn
    \/ WithdrawalYear
    \/ WithdrawalPathDone
    \/ WithdrawalRateDone
    \/ WithdrawalReturn

\* the withdrawal simulator on an engine with a short accumulation horizon
SpecWithdrawal == InitMC /\ [][NextWithdrawal]_vars

-----------------------------------------------------------------------------
(* Properties *)

Horizon == retirement_age - current_age

SelfEnded == pc = "done" /\ result.op = "self"
RothEnded == pc = "done" /\ result.op = "roth"

\* currentAge=22, retirementAge=65, contribution=10000, fee=0.3%; income 100000,
\* salary growth 4%, inflation 3% and r_401k 10% are the engine's fixed defaults
Scenario ==
    /\ current_age = DefaultCurrentAge
    /\ retirement_age = DefaultRetirementAge
    /\ initial_investment = DefaultContribution
    /\ f_401k = DefaultFee401k

\* passiveRatio = 1.0, activeRatio = 0, everything else at its default
PassiveOnly ==
    /\ passive_ratio = BP
    /\ active_ratio = 0
    /\ initial_investment = DefaultContribution
    /\ f_401k = DefaultFee401k
    /\ employer_match = DefaultEmployerMatch
    /\ active_trading_freq = DefaultTradingFreq
    /\ Horizon >= 1

\* C1: with passiveRatio = 1.0 and activeRatio = 0 the self-managed projector
\* never runs the active-pool trading-gain tax branch, keeps the active balance
\* at 0 in every year, and runs to completion returning a result.
C1_PassiveOnlyReturns ==
    PassiveOnly =>
        /\ pc = "self" => (frame.active_value = 0 /\ "active_growth" \notin frame.bound)
        /\ SelfEnded => result.status = "returned"

C3_InvalidConfigurationAborts ==
    (pc = "done" /\ Horizon <= 0)
        => (result.status = "raised" /\ result.exc = "InvalidConfiguration")

\* C4: a projector call changes no configuration field, and a call that follows
\* a call of the same projector with the same argument and no assignment in
\* between ends with the identical outcome.
C4_SameOutcome ==
    (pc = "done" /\ prev[result.op].op # "none"
        /\ prev[result.op].liquidation_percent = result.liquidation_percent)
        => result = prev[result.op]

C5_TotalTaxMonotone ==
    tax_call.fn = "calculate_total_tax" =>
        /\ tax_call.income = 0 => tax_call.out = 0
        /\ \A a \in Incomes :
               a <= tax_call.income => calculate_total_tax(a) <= tax_call.out

C5_Witness ==
    /\ tax_call.fn = "calculate_total_tax"
    /\ tax_call.income > tax_brackets[2][2]
    /\ tax_call.out > 0

\* rate (percent) of the bracket of self.tax_brackets whose [lower, upper] holds x
TableRate(x) ==
    LET i == CHOOSE j \in 1..Len(tax_brackets) :
                 tax_brackets[j][1] <= x /\ x <= tax_brackets[j][2]
    IN  tax_brackets[i][3]

\* C6: calculate_true_marginal_tax(b, 1) is the rate of the bracket of the
\* table whose [lower, upper] range holds the marginal dollar b + 1.
C6_MarginalDollarAtBracketRate ==
    (tax_call.fn = "calculate_true_marginal_tax" /\ tax_call.block = 1) =>
        /\ tax_call.out.exc = "none"
        /\ tax_call.out.rate = 100 * TableRate(tax_call.income + 1)

\* rate (basis points) of the capital-gains bracket whose [lower, upper] holds x
CgTableRate(x) ==
    LET i == CHOOSE j \in 1..Len(cg_brackets) :
                 cg_brackets[j][1] <= x /\ x <= cg_brackets[j][2]
    IN  cg_brackets[i][3]

\* C7: projected_capital_gains_tax(income) is the rate of the capital-gains
\* bracket that holds the income, plus 3.8% above 200000, and is non-decreasing
\* in the income.
C7_CapitalGainsBracketRate ==
    tax_call.fn = "projected_capital_gains_tax" =>
        /\ tax_call.out = CgTableRate(tax_call.income)
                             + (IF tax_call.income > niit_threshold THEN 380 ELSE 0)
        /\ \A a \in Incomes :
               a <= tax_call.income => projected_capital_gains_tax(a) <= tax_call.out

\* C8: calculate_marginal_tax returns calculate_total_tax(income) / income for
\* income > 0; for income <= 0 it raises or returns 0.
C8_EffectiveRate ==
    tax_call.fn = "calculate_marginal_tax" =>
        /\ tax_call.income > 0 =>
               /\ tax_call.out.exc = "none"
               /\ tax_call.out.num = calculate_total_tax(tax_call.income)
               /\ tax_call.out.den = tax_call.income
        /\ tax_call.income <= 0 =>
               (tax_call.out.exc # "none" \/ tax_call.out.num = 0)

C8_Witness ==
    /\ tax_call.fn = "calculate_marginal_tax"
    /\ tax_call.income < 0
    /\ tax_call.out.exc = "none"

StrictlyIncreasing(seq) == \A i \in 1..(Len(seq) - 1) : seq[i] < seq[i + 1]

\* C9: the Roth projector returns one annualRealValues entry per simulated year,
\* retirementAge - currentAge of them, and in the scenario without employer
\* match the 43 entries are strictly increasing.
C9_AnnualValues ==
    (RothEnded /\ result.status = "returned") =>
        /\ Horizon >= 0 => Len(result.annual_values) = Horizon
        /\ (Scenario /\ employer_match = 0) =>
               /\ Len(result.annual_values) = 43
               /\ StrictlyIncreasing(result.annual_values)

C9_Witness ==
    /\ RothEnded
    /\ result.status = "returned"
    /\ Scenario
    /\ employer_match = 0
    /\ Len(result.annual_values) = 43

\* C10: in the scenario with employerMatchRate = 3% and matchLimit = 6% the
\* finalRealValue is strictly greater than that of the run without match, and
\* at the end of every simulated year trad_value < roth_value.
C10_MatchedRun ==
    (Scenario /\ employer_match = DefaultEmployerMatch) =>
        /\ (pc = "roth" /\ frame.year >= 1) => frame.trad_value < frame.roth_value
        /\ (RothEnded /\ result.status = "returned" /\ baseline.op = "roth") =>
               result.final_real_value > baseline.final_real_value

C10_Witness ==
    /\ Scenario
    /\ employer_match = DefaultEmployerMatch
    /\ RothEnded
    /\ result.status = "returned"
    /\ baseline.op = "roth"
    /\ baseline.final_real_value > 0

-----------------------------------------------------------------------------
(* Properties of calculate_rebalancing_costs *)

RebalanceCalled == tax_call.fn = "calculate_rebalancing_costs"

CallTotal == tax_call.passive_value + tax_call.active_value

\* |passive_value / total - target| * total of the recorded call, recomputed
\* from the arguments, in basis points of a dollar
CallDrift == Abs(tax_call.passive_value * BP - tax_call.passive_ratio * CallTotal)

\* C11: a call whose passive share of a positive total equals passive_ratio
\* returns 0
C11_AtTargetCostsNothing ==
    (RebalanceCalled /\ CallTotal > 0 /\ CallDrift = 0)
        => (tax_call.out.exc = "none" /\ tax_call.out.rebalancing_tax = 0)

C11_Witness ==
    /\ RebalanceCalled
    /\ tax_call.passive_value > 0
    /\ tax_call.active_value > 0
    /\ CallDrift = 0
    /\ tax_call.out.exc = "none"
    /\ tax_call.out.rebalancing_tax = 0

\* C12: a call with a combined value of 0 does not fail and returns 0
C12_EmptyPortfolioCostsNothing ==
    (RebalanceCalled /\ CallTotal = 0)
        => (tax_call.out.exc = "none" /\ tax_call.out.rebalancing_tax = 0)

\* C18 as stated: with a positive total, a non-zero tax is returned only when
\* the drift is strictly greater than 0.10
C18_TaxOnlyAboveTenPercent ==
    (RebalanceCalled /\ CallTotal > 0 /\ tax_call.out.rebalancing_tax # 0)
        => CallDrift > 2 * drift_threshold * CallTotal

\* C18 amended: with a positive total, a non-zero tax is returned only when
\* the drift is at least 0.05; every drift strictly below 0.05 returns 0
C18_TaxOnlyFromFivePercent ==
    (RebalanceCalled /\ CallTotal > 0)
        => /\ tax_call.out.exc = "none"
           /\ tax_call.out.rebalancing_tax # 0 => CallDrift >= drift_threshold * CallTotal
           /\ CallDrift < drift_threshold * CallTotal => tax_call.out.rebalancing_tax = 0

C18_Witness ==
    /\ RebalanceCalled
    /\ CallTotal > 0
    /\ tax_call.out.rebalancing_tax # 0
    /\ CallDrift > drift_threshold * CallTotal
    /\ CallDrift < 2 * drift_threshold * CallTotal

-----------------------------------------------------------------------------
(* Properties of the yearly steps of the projectors *)

InYearLoop == pc \in {"roth", "self"} /\ frame.year >= 1

\* C16: when the initial contribution is within the statutory limit for
\* currentAge, the nominal contribution of every simulated year y of either
\* projector is within the statutory limit for age currentAge + y
C16_ContributionWithinLimit ==
    (InYearLoop /\ initial_investment <= get_roth_limit(current_age))
        => pre_tax_contribution(frame.year - 1)
               <= get_roth_limit(current_age + frame.year - 1)

\* C17: no year of the self-managed projector starts with a passive share that
\* deviates from passive_ratio by more than 0.10: such a drift at the end of a
\* year is rebalanced away in that year (the bound allows for the rounding of
\* passive_ratio * total_value to a dollar)
C17_NoDriftCarriedOver ==
    (pc = "self" /\ frame.year >= 1 /\ frame.total_value > 0)
        => Abs(10 * frame.passive_value
                   - 10 * MulDiv(frame.total_value, passive_ratio, BP))
               <= frame.total_value + 10

\* growth of the active pool in the first year: the pool holds the year's
\* contribution only
FirstYearActiveGrowth ==
    MulDiv(frame.active_cost_basis, BP + r_active - f_active, BP)
        - frame.active_cost_basis

\* C19: the gain realized in a year is active_trading_freq times the tracked
\* unrealized gain, and the tracked gain is reduced by exactly that amount; at
\* the end of the first year the tracked gain is therefore the year's growth
\* less at most active_trading_freq times that growth (to a dollar)
C19_RealizedShareOfGain ==
    (pc = "self" /\ frame.year = 1 /\ frame.active_cost_basis > 0)
        => FirstYearActiveGrowth - frame.active_unrealized_gains
               <= MulDiv(FirstYearActiveGrowth, active_trading_freq, BP) + 1

\* C20: at the end of every simulated year of the self-managed projector both
\* balances and both tracked unrealized gains are non-negative (the returns and
\* fees of the modelled engines are non-negative, the trading frequency is
\* within [0, 1])
C20_PoolsNonNegative ==
    (pc = "self" /\ frame.year >= 1)
        => /\ frame.passive_value >= 0
           /\ frame.active_value >= 0
           /\ frame.passive_unrealized_gains >= 0
           /\ frame.active_unrealized_gains >= 0

-----------------------------------------------------------------------------
(* Properties of the Monte Carlo simulator *)

McEnded == pc = "done" /\ result.op = "mc"

\* equal up to the rounding of the fixed-point arithmetic: within 1% and a dollar
Close(a, b) == Abs(a - b) * 100 <= Abs(b) + 100

\* C13: with both volatilities 0 the mean final value of the simulator equals
\* the finalRealValue of the deterministic projector of the same strategy run
\* with the same parameters
C13_ZeroVolatilityMean ==
    (McEnded /\ result.status = "returned"
        /\ passive_volatility = 0 /\ active_volatility = 0)
        => /\ (result.is_roth /\ prev.roth.op = "roth"
                   /\ prev.roth.status = "returned")
                  => Close(result.mean_final_value, prev.roth.final_real_value)
           /\ (~ result.is_roth /\ prev.self.op = "self"
                   /\ prev.self.status = "returned")
                  => Close(result.mean_final_value, prev.self.final_real_value)

-----------------------------------------------------------------------------
(* Properties of the withdrawal simulator *)

\* the step that ends a path of the withdrawal simulator
PathCounted ==
    /\ pc = "withdrawal" /\ frame.stage = "while"
    /\ pc' = "withdrawal" /\ frame'.stage = "for"

\* C14: a path is counted as a success if and only if it ran the 30 yearly
\* steps with a strictly positive balance after each of them, the 30th
\* included (the loop stops at the first balance <= 0, so the balance the
\* path ends with is the only one that can be <= 0)
C14_SuccessIffPositiveThroughout ==
    [][PathCounted =>
          ((frame'.successes = frame.successes + 1)
              <=> (frame.years_sustained = withdrawal_years /\ frame.portfolio > 0))]_vars

-----------------------------------------------------------------------------
(* Properties of calculate_risk_metrics *)

RiskEnded == pc = "done" /\ result.op = "risk" /\ result.status = "returned"

ZeroRatio == Ratio("finite", 0)

\* the annualized returns below 0 of the call that ended
NegativeSubset == NegativeReturns(result.annual_returns)

\* C15: a ratio whose denominator is a standard deviation of 0 is reported as
\* 0 and nothing is divided by zero: sharpe_ratio when the standard deviation
\* of all annualized returns is 0, sortino_ratio when the negative-return
\* subset is empty or has a standard deviation of 0
C15_ZeroDeviationGivesZeroRatio ==
    RiskEnded =>
        /\ StdDev(result.annual_returns) = 0 => result.sharpe_ratio = ZeroRatio
        /\ (NegativeSubset = <<>> \/ StdDev(NegativeSubset) = 0)
               => result.sortino_ratio = ZeroRatio

-----------------------------------------------------------------------------
(* Properties of the end of the projector calls *)

\* the step in which calculate_roth_401k_returns returns
RothReturns == pc = "roth" /\ pc' = "done" /\ result'.status = "returned"

\* annualIncome * (1 + salaryGrowth) ^ investmentYears, as the self-managed
\* projector passes it to projected_capital_gains_tax
FinalYearIncome ==
    Compound(annual_income, salary_growth, calculate_investment_years)

\* the tax rate on the matched balance at the projected final-year income
FinalYearRate(f) ==
    calculate_true_marginal_tax(FinalYearIncome, f.trad_value, 0).rate

\* C21: at the end of calculate_roth_401k_returns the matched balance is taxed
\* at calculate_true_marginal_tax of the projected final-year income
\* annualIncome * (1 + salaryGrowth) ^ investmentYears, and the Roth balance
\* is not taxed
C21_MatchTaxedAtFinalYearIncome ==
    [][(RothReturns /\ frame.trad_value > 0)
          => result'.final_real_value =
                 Deflate(frame.roth_value
                             + MulDiv(frame.trad_value, BP - FinalYearRate(frame), BP),
                         inflation, frame.investment_years)]_vars

\* the step of one year of the loop of calculate_self_investment_returns
SelfYearDone == pc = "self" /\ pc' = "self" /\ frame'.year = frame.year + 1

\* C22: in every simulated year the self-managed projector invests
\* C_y * (1 - m_y), where C_y is the pre-tax contribution and m_y the true
\* marginal tax rate that calculate_roth_401k_returns computes for that year
C22_InvestsNetOfRothMarginalTax ==
    [][SelfYearDone
          => frame'.total_contributions - frame.total_contributions =
                 MulDiv(pre_tax_contribution(frame.year),
                        BP - RothMarginalTax(frame.year).rate, BP)]_vars

Last(seq) == seq[Len(seq)]

\* the step of one year of the loop of calculate_roth_401k_returns
RothYearDone == pc = "roth" /\ pc' = "roth" /\ frame'.year = frame.year + 1

\* the step in which calculate_self_investment_returns returns
SelfReturns == pc = "self" /\ pc' = "done" /\ result'.status = "returned"

\* the nominal value of the 401k after the retirement tax on the matched
\* balance, at the rate the projector applies
RothAfterTax(f) ==
    LET income == Compound(total_income(f.year - 1), salary_growth, f.investment_years)
        rate == calculate_true_marginal_tax(income, f.trad_value, 0).rate
    IN  IF f.trad_value > 0
        THEN f.roth_value + MulDiv(f.trad_value, BP - rate, BP)
        ELSE f.roth_value

\* the accumulated unrealized gains of both pools
UnrealizedGains(f) == f.passive_unrealized_gains + f.active_unrealized_gains

\* the nominal value of the self-managed portfolio after the liquidation tax,
\* which is owed on positive gains only
SelfAfterTax(f) ==
    LET rate == projected_capital_gains_tax(FinalYearIncome)
        taxable_gains == MulDiv(UnrealizedGains(f), f.liquidation_percent * 100, BP)
    IN  IF UnrealizedGains(f) > 0
        THEN f.total_value - MulDiv(taxable_gains, rate, BP)
        ELSE f.total_value

\* C23: for every horizon of at least one year both projectors deflate the
\* entry of year y of the annual values by (1 + inflation) ^ (y + 1) and the
\* final after-tax nominal value by (1 + inflation) ^ investmentYears, the
\* self-managed projector also when the unrealized gains are not positive
C23_DeflationOverYearsAndHorizon ==
    [][/\ RothYearDone
            => Last(frame'.annual_values) =
                   Deflate(frame'.roth_value + frame'.trad_value,
                           inflation, frame.year + 1)
       /\ SelfYearDone
            => Last(frame'.annual_values) =
                   Deflate(frame'.total_value, inflation, frame.year + 1)
       /\ (RothReturns /\ Horizon >= 1)
            => result'.final_real_value =
                   Deflate(RothAfterTax(frame), inflation, Horizon)
       /\ (SelfReturns /\ Horizon >= 1)
            => result'.final_real_value =
                   Deflate(SelfAfterTax(frame), inflation, Horizon)]_vars

\* a self-managed run of at least one year has returned with full liquidation
\* and without a liquidation tax: its final value is its last annual value
C23_Witness ==
    /\ SelfEnded
    /\ result.status = "returned"
    /\ Horizon >= 1
    /\ result.liquidation_percent = 100
    /\ result.final_real_value = Last(result.annual_values)

-----------------------------------------------------------------------------
(* Properties of the samples of the Monte Carlo simulator *)

\* C24: for either strategy and every horizon of at least one year the
\* simulator runs the yearly recurrence on each of its paths: it returns one
\* final value and one trajectory per path, each trajectory has exactly
\* investmentYears entries, and each path starts from a zero balance, so that
\* the first entry of a trajectory is the first contribution
C24_OneFullTrajectoryPerPath ==
    (McEnded /\ result.status = "returned" /\ Horizon >= 1)
        => /\ Len(result.simulation_results) = num_simulations
           /\ Len(result.annual_values_all) = num_simulations
           /\ \A i \in 1..Len(result.annual_values_all) :
                  /\ Len(result.annual_values_all[i]) = Horizon
                  /\ result.annual_values_all[i][1] = initial_investment

-----------------------------------------------------------------------------
(* Properties of the horizon of the risk metrics *)

\* the step in which calculate_risk_metrics returns
RiskReturns == pc = "risk" /\ pc' = "done" /\ result'.status = "returned"

\* C25: on an engine whose ages have been assigned, calculate_risk_metrics
\* annualizes the final value of each path over the number of years the
\* simulation it called ran, retirement_age - current_age at call time
C25_AnnualizedOverSimulatedYears ==
    [][(RiskReturns /\ frame.investment_years >= 1)
          => result'.annual_returns =
                 [i \in 1..Len(frame.simulation_results) |->
                      AnnualizedReturn(frame.simulation_results[i],
                                       frame.investment_years)]]_vars

-----------------------------------------------------------------------------
(* Properties of a contribution of 0 *)

\* C26: with initial_investment = 0 and an otherwise valid configuration
\* neither projector ends in an arithmetic error
C26_ZeroContributionCompletes ==
    (pc = "done" /\ result.op \in {"roth", "self"}
        /\ initial_investment = 0 /\ Horizon >= 1)
        => result.exc # "ZeroDivisionError"

====
